---- MODULE Spec2Model ----
(***************************************************************************)
(* Model of src/api/main.py: the FastAPI facade in front of the            *)
(* garminconnect client library.                                           *)
(*                                                                         *)
(* State of the program: the process environment (GARMINTOKENS), the       *)
(* token-store files on disk, and the requests being served.  Each request *)
(* is served by a handler slot; a handler is cut into steps at the points  *)
(* where it touches the token store or calls the upstream client, so that  *)
(* handlers of different slots interleave exactly there.  Spec serves one  *)
(* request at a time (one slot).                                           *)
(*                                                                         *)
(* The garminconnect library is not part of the repository.  Its calls are *)
(* modelled by the set of outcomes each call can have (a result or one of  *)
(* the exception classes the handlers distinguish); the handler code that  *)
(* consumes the outcome is translated from the source.                     *)
(***************************************************************************)
EXTENDS Naturals, FiniteSets, Sequences, TLC

\* ------------------------------------------------------------- bounds
MaxTok == 2             \* token sets the upstream issues in one behaviour
MaxChal == 1            \* MFA challenges the upstream issues in one behaviour
MaxLen == 3             \* bytes of an activity file the upstream returns

\* ------------------------------------------------- exception classes
AuthErr == "GarminConnectAuthenticationError"
RateErr == "GarminConnectTooManyRequestsError"
ConnErr == "GarminConnectConnectionError"
FileNotFound == "FileNotFoundError"
AttrErr == "AttributeError"
OtherErr == "RuntimeError"

\* What any upstream network call can raise besides its proper answer.
Faults == {RateErr, ConnErr, OtherErr}
AllErrs == {AuthErr, RateErr, ConnErr, FileNotFound, OtherErr}

\* str(err)
Str(err) ==
    CASE err = AuthErr -> "authentication failed"
      [] err = RateErr -> "rate limited"
      [] err = ConnErr -> "connection failed"
      [] err = FileNotFound -> "no such file"
      [] err = AttrErr -> "no such attribute"
      [] OTHER -> "runtime failure"

\* --------------------------------------------------------- environment
NoneVal == "<None>"                 \* os.getenv of an unset variable
EnvPath == "/data/garmintokens"     \* a value GARMINTOKENS may hold
DefaultPath == "~/.garminconnect"   \* os.path.expanduser("~/.garminconnect")
EnvValues == {NoneVal, "", EnvPath}
Paths == {EnvPath, DefaultPath}

\* Python truthiness of an Optional[str]
Truthy(s) == s # NoneVal /\ s # ""

\* os.getenv("GARMINTOKENS") or os.path.expanduser("~/.garminconnect")
ResolveTokenstore(e) == IF Truthy(e) THEN e ELSE DefaultPath

\* Activity download formats of Garmin.ActivityDownloadFormat
DownloadFormats == {"ORIGINAL", "TCX", "GPX", "KML", "CSV"}

VARIABLES
    env,          \* value of os.getenv("GARMINTOKENS") in this process
    store,        \* path -> token set held by the token-store file, 0: no file
    issued,       \* number of token sets the upstream has issued
    challenges,   \* number of MFA challenges the upstream has issued
    req           \* handler slot -> the request it serves

vars == <<env, store, issued, challenges, req>>

\* The handler slots of the deployment (fixed by the initial state).
Handlers == DOMAIN req

\* ------------------------------------------------------------ requests
LoginEndpoints == {"login", "resume"}
ReadOnlyEndpoints == {"summary", "activities", "download", "whoami"}

\* What a request body / query can carry.
Credentials == {"none", "good", "mfa", "bad"}   \* LoginRequest.email/password
Codes == {"right", "wrong"}                     \* ResumeLoginRequest.mfa_code
ClientStates == 0..MaxChal                      \* 0: a state the upstream never issued
Formats == DownloadFormats \cup {"FIT"}         \* fmt is a free string
ActivityIds == {"1001", "1002"}                 \* activity_id path parameter

\* Content of activity files: byte strings of up to MaxLen bytes.
SampleBytes == {0, 255}
ByteStrings == UNION {[1..n -> SampleBytes] : n \in 0..MaxLen}

NoRequest ==
    [ep |-> "none", pc |-> "idle",
     creds |-> "na", cs |-> 0, code |-> "na", fmt |-> "na", activity_id |-> "na",
     seen |-> "none", load |-> "none", up |-> "none", dumped |-> "none",
     garmin |-> 0, token2 |-> 0, logins |-> 0, calls |-> 0,
     status |-> 0, detail |-> "", body |-> "", client_state |-> 0,
     escaped |-> "",
     asked |-> <<>>, raw |-> <<>>, follows |-> "none", removed |-> FALSE,
     out_activity_id |-> "", out_format |-> "", data_base64 |-> <<>>]

\* A slot takes a new request when it serves none or has answered its last.
Free(p) == req[p].pc \in {"idle", "done"}

\* A write location that ignores GARMINTOKENS.
DumpLocationHomeOnly(tokenstore_env) == DefaultPath

\* Line 88 (and 103): where the tokens of a fresh session are written.
DumpLocation(tokenstore_env) == ResolveTokenstore(tokenstore_env)

\* ------------------------------------------- the upstream client library
\* Some handler stands at its garth.dump(tokenstore) call (lines 90, 105):
\* the files of the store may be open for writing.  No handler takes a lock.
WriteInProgress(tokenstore) ==
    \E q \in Handlers : req[q].pc = "dump" /\ DumpLocation(env) = tokenstore

\* Garmin().login(tokenstore): reads the store files, then validates the
\* tokens upstream.  seen: what the store held when it was read (no file,
\* tokens the upstream accepts, tokens it rejects: expired or revoked);
\* res: how the call ends.  A transport fault hits either kind of store.
\* A read that races with an unlocked write sees the old store or a file
\* written in part (seen "partial"), which does not parse.
TokenLoadOutcomes(tokenstore) ==
    (IF store[tokenstore] = 0
     THEN {[seen |-> "missing", res |-> FileNotFound]}
     ELSE {[seen |-> "valid", res |-> "ok"], [seen |-> "invalid", res |-> AuthErr]}
          \cup {[seen |-> v, res |-> f] : v \in {"valid", "invalid"}, f \in Faults})
    \cup (IF WriteInProgress(tokenstore)
          THEN {[seen |-> "partial", res |-> OtherErr]}
          ELSE {})

\* Garmin(email, password, ...).login(): credential login upstream.
CredentialLoginOutcomes(creds) ==
    Faults \cup
    (CASE creds = "good" -> {"ok"}
       [] creds = "mfa" -> {"needs_mfa"}
       [] OTHER -> {AuthErr})

\* Garmin(return_on_mfa=True).resume_login(client_state, mfa_code)
ResumeLoginOutcomes(cs, code) ==
    Faults \cup
    (IF cs \in 1..challenges /\ code = "right" THEN {"ok"} ELSE {AuthErr})

\* garmin.get_user_summary / get_activities / download_activity / ...
DataCallOutcomes == {"ok", AuthErr} \cup Faults

\* garmin.garth.dump(tokenstore)
DumpOutcomes == {"ok"} \cup AllErrs

\* ------------------------------------------------------------- helpers
\* raise HTTPException(status_code, detail)
HTTPException(status_code, detail) == [status |-> status_code, detail |-> detail]

\* RaiseFromErr without the rate-limit branch: the error lands in the catch-all.
RaiseFromErrNoRateLimit(err) ==
    IF err = AuthErr THEN HTTPException(401, "Authentication error")
    ELSE IF err = ConnErr THEN HTTPException(502, "Upstream connection error")
    ELSE HTTPException(500, Str(err))

RaiseFromErr(err) ==
    IF err = AuthErr THEN HTTPException(401, "Authentication error")
    ELSE IF err = RateErr THEN HTTPException(429, "Too many requests")
    ELSE IF err = ConnErr THEN HTTPException(502, "Upstream connection error")
    ELSE HTTPException(500, Str(err))

NotLoggedIn == HTTPException(401, "Not logged in. Use /login first.")

\* The request ends with an HTTPException raised by the handler.
Raised(r, exc) == [r EXCEPT !.pc = "done", !.status = exc.status, !.detail = exc.detail]

\* The request ends with a returned body.
Returned(r, body, client_state) ==
    [r EXCEPT !.pc = "done", !.status = 200, !.body = body, !.client_state = client_state]

\* An exception other than HTTPException leaves the handler: the framework
\* answers with its own 500.
Propagated(r, err) ==
    [r EXCEPT !.pc = "done", !.status = 500, !.detail = "Internal Server Error",
              !.escaped = err]

\* The exception classes the except clause of _instantiate_api_from_tokenstore names.
CaughtOnLoad == {FileNotFound, AuthErr}

\* A resolver that keeps the session of the last login in the process and
\* falls back to it when the store cannot be loaded.
InstantiateApiCached(tokenstore, outcome) ==
    IF outcome = "ok" THEN [garmin |-> store[tokenstore], raised |-> ""]
    ELSE IF outcome \in CaughtOnLoad THEN [garmin |-> issued, raised |-> ""]
    ELSE [garmin |-> 0, raised |-> outcome]

\* _instantiate_api_from_tokenstore, given the outcome of garmin.login(tokenstore):
\* the handle (the tokens loaded; 0 is None) or the exception it lets through.
InstantiateApiFromTokenstore(tokenstore, outcome) ==
    IF outcome = "ok" THEN [garmin |-> store[tokenstore], raised |-> ""]
    ELSE IF outcome \in CaughtOnLoad THEN [garmin |-> 0, raised |-> ""]
    ELSE [garmin |-> 0, raised |-> outcome]

\* ------------------------------------------------------------ /healthz
healthz ==
    \E p \in Handlers :
        /\ Free(p)
        /\ req' = [req EXCEPT ![p] =
                     Returned([NoRequest EXCEPT !.ep = "healthz"], "ok", 0)]
        /\ UNCHANGED <<env, store, issued, challenges>>

\* -------------------------------------------------------------- /login
\* Lines 70-71: whether login tries the token store first.
LoginTriesReuse(tokenstore_env) == Truthy(tokenstore_env)

\* LoginAfterReuse with the loaded session ignored: login goes on to the
\* credential login although the store gave a session.
LoginAfterReuseIgnoresSession(r, res) ==
    IF res.raised # "" THEN Propagated(r, res.raised)
    ELSE [r EXCEPT !.pc = "credlogin"]

\* Lines 72-74: what login does with the result of the reuse attempt.
LoginAfterReuse(r, res) ==
    IF res.raised # "" THEN Propagated(r, res.raised)
    ELSE IF res.garmin # 0 THEN Returned([r EXCEPT !.garmin = res.garmin], "ok", 0)
    ELSE [r EXCEPT !.pc = "credlogin"]

\* Lines 70-74: the reuse attempt of POST /login.
LoginReuse(p) ==
    /\ Free(p)
    /\ LoginTriesReuse(env)
    /\ \E creds \in Credentials, o \in TokenLoadOutcomes(env) :
         LET r == [NoRequest EXCEPT !.ep = "login", !.creds = creds,
                                    !.seen = o.seen, !.load = o.res]
         IN req' = [req EXCEPT ![p] =
                      LoginAfterReuse(r, InstantiateApiFromTokenstore(env, o.res))]
    /\ UNCHANGED <<env, store, issued, challenges>>

\* LoginAfterCredentials answering needs_mfa without the challenge state.
LoginAfterCredentialsDropsState(r, outcome, tok2) ==
    IF outcome = "needs_mfa"
    THEN Returned([r EXCEPT !.token2 = tok2], "needs_mfa", 0)
    ELSE Raised(r, RaiseFromErr(outcome))

\* LoginAfterCredentials persisting the half-open session of a challenge.
LoginAfterCredentialsDumpsChallenge(r, outcome, tok2) ==
    IF outcome = "needs_mfa"
    THEN [r EXCEPT !.pc = "dump", !.garmin = tok2, !.token2 = tok2]
    ELSE Raised(r, RaiseFromErr(outcome))

\* Lines 84-86 and 94-95: what login does with the outcome of garmin.login()
\* other than success; tok2 is the second element of the tuple returned.
LoginAfterCredentials(r, outcome, tok2) ==
    IF outcome = "needs_mfa"
    THEN Returned([r EXCEPT !.token2 = tok2], "needs_mfa", tok2)
    ELSE Raised(r, RaiseFromErr(outcome))

\* Lines 76-86, 94-95: Garmin(email, password, ...).login()
LoginCredentials(p) ==
    /\ \/ Free(p) /\ ~LoginTriesReuse(env)
       \/ req[p].pc = "credlogin"
    /\ \E creds \in Credentials :
         /\ req[p].pc = "credlogin" => creds = req[p].creds
         /\ \E o \in CredentialLoginOutcomes(creds) :
              LET r0 == IF req[p].pc = "credlogin" THEN req[p]
                        ELSE [NoRequest EXCEPT !.ep = "login", !.creds = creds]
                  r == [r0 EXCEPT !.up = o, !.logins = @ + 1]
              IN IF o = "ok"
                 THEN /\ issued < MaxTok
                      /\ issued' = issued + 1
                      /\ req' = [req EXCEPT ![p] =
                                   [r EXCEPT !.pc = "dump", !.garmin = issued + 1]]
                      /\ UNCHANGED challenges
                 ELSE IF o = "needs_mfa"
                 THEN /\ challenges < MaxChal
                      /\ challenges' = challenges + 1
                      /\ req' = [req EXCEPT ![p] =
                                   LoginAfterCredentials(r, o, challenges + 1)]
                      /\ UNCHANGED issued
                 ELSE /\ req' = [req EXCEPT ![p] = LoginAfterCredentials(r, o, 0)]
                      /\ UNCHANGED <<issued, challenges>>
    /\ UNCHANGED <<env, store>>

\* A dump that leaves an empty store behind when it fails.
GarthDumpTruncates(tokenstore, tokens, outcome) ==
    [store EXCEPT ![tokenstore] = IF outcome = "ok" THEN tokens ELSE 0]

\* garmin.garth.dump(tokenstore): the store after the call.
GarthDump(tokenstore, tokens, outcome) ==
    IF outcome = "ok" THEN [store EXCEPT ![tokenstore] = tokens] ELSE store

\* LoginAfterDump without the inner try: a dump failure reaches the outer
\* except clause and is translated like any other failure.
LoginAfterDumpPropagates(r, outcome) ==
    IF outcome = "ok" THEN Returned([r EXCEPT !.dumped = outcome], "ok", 0)
    ELSE Raised([r EXCEPT !.dumped = outcome], RaiseFromErr(outcome))

\* Lines 89-93: try: dump / except Exception: pass / return ok.
LoginAfterDump(r, outcome) == Returned([r EXCEPT !.dumped = outcome], "ok", 0)

\* Lines 88-93: persist the tokens, best effort, and answer.
LoginDump(p) ==
    /\ req[p].pc = "dump"
    /\ req[p].ep = "login"
    /\ \E d \in DumpOutcomes :
         /\ store' = GarthDump(DumpLocation(env), req[p].garmin, d)
         /\ req' = [req EXCEPT ![p] = LoginAfterDump(req[p], d)]
    /\ UNCHANGED <<env, issued, challenges>>

\* Lines 68-95
login ==
    \/ \E p \in Handlers : LoginReuse(p)
    \/ \E p \in Handlers : LoginCredentials(p)
    \/ \E p \in Handlers : LoginDump(p)

\* ------------------------------------------------------- /login/resume
\* Line 102: the arguments handed to garmin.resume_login.
ResumeArgs(cs, code) == [cs |-> cs, code |-> code]

\* ResumeFailed reporting every failure as an authentication error.
ResumeFailedAlways401(r, outcome) == Raised(r, HTTPException(401, "Authentication error"))

\* Lines 109-110: a failed resume goes through _raise_from_err.
ResumeFailed(r, outcome) == Raised(r, RaiseFromErr(outcome))

\* Lines 100-102, 109-110: Garmin(return_on_mfa=True).resume_login(...)
ResumeCall(p) ==
    /\ Free(p)
    /\ \E cs \in ClientStates, code \in Codes :
         LET a == ResumeArgs(cs, code)
         IN \E o \in ResumeLoginOutcomes(a.cs, a.code) :
              LET r == [NoRequest EXCEPT !.ep = "resume", !.cs = cs, !.code = code,
                                         !.up = o, !.calls = 1]
              IN IF o = "ok"
                 THEN /\ issued < MaxTok
                      /\ issued' = issued + 1
                      /\ req' = [req EXCEPT ![p] =
                                   [r EXCEPT !.pc = "dump", !.garmin = issued + 1]]
                 ELSE /\ req' = [req EXCEPT ![p] = ResumeFailed(r, o)]
                      /\ UNCHANGED issued
    /\ UNCHANGED <<env, store, challenges>>

\* Lines 104-108: try: dump / except Exception: pass / return ok.
ResumeAfterDump(r, outcome) == Returned([r EXCEPT !.dumped = outcome], "ok", 0)

\* Lines 103-108: persist the tokens, best effort, and answer.
ResumeDump(p) ==
    /\ req[p].pc = "dump"
    /\ req[p].ep = "resume"
    /\ \E d \in DumpOutcomes :
         /\ store' = GarthDump(DumpLocation(env), req[p].garmin, d)
         /\ req' = [req EXCEPT ![p] = ResumeAfterDump(req[p], d)]
    /\ UNCHANGED <<env, issued, challenges>>

\* Lines 98-110
resume_login ==
    \/ \E p \in Handlers : ResumeCall(p)
    \/ \E p \in Handlers : ResumeDump(p)

\* ------------------------------------------------- read-only endpoints
\* Lines 117-118 (131, 144, 159): what a read-only handler does with the
\* result of session resolution.
AfterResolve(r, res) ==
    IF res.raised # "" THEN Propagated(r, res.raised)
    ELSE IF res.garmin = 0 THEN Raised(r, NotLoggedIn)
    ELSE [r EXCEPT !.pc = "call", !.garmin = res.garmin]

\* History of a worker: what the request it served before the present one
\* left behind.  "login_saved": a login or resume that answered ok with its
\* tokens in the store (reused from it or written to it); "login_unsaved":
\* one that answered ok although the write failed; "read_removed": a
\* read-only request that answered 200, the store being removed afterwards.
Precedent(r) ==
    IF r.pc # "done" \/ r.status # 200 THEN "none"
    ELSE IF r.ep \in LoginEndpoints /\ r.body = "ok" /\ ~r.removed
    THEN (IF r.load = "ok" \/ r.dumped = "ok" THEN "login_saved" ELSE "login_unsaved")
    ELSE IF r.ep \in ReadOnlyEndpoints /\ r.removed THEN "read_removed"
    ELSE "none"

\* Lines 115-118 (128-131, 141-144, 156-159): session resolution.
Resolve(p, ep, fmt, activity_id) ==
    /\ Free(p)
    /\ \E o \in TokenLoadOutcomes(ResolveTokenstore(env)) :
         LET r == [NoRequest EXCEPT !.ep = ep, !.fmt = fmt,
                                    !.activity_id = activity_id,
                                    !.follows = Precedent(req[p]),
                                    !.seen = o.seen, !.load = o.res]
         IN req' = [req EXCEPT ![p] =
                      AfterResolve(r, InstantiateApiFromTokenstore(
                                          ResolveTokenstore(env), o.res))]
    /\ UNCHANGED <<env, store, issued, challenges>>

\* AfterCall with a retry: a failed operation sends the handler back to
\* the call.
AfterCallRetries(r, outcome) ==
    IF outcome = "ok" THEN Returned(r, "data", 0)
    ELSE [r EXCEPT !.pc = "call"]

\* try: data = garmin.<operation>(...); return {...} / except: _raise_from_err
AfterCall(r, outcome) ==
    IF outcome = "ok" THEN Returned(r, "data", 0)
    ELSE Raised(r, RaiseFromErr(outcome))

\* One upstream operation, then the answer.
Dispatch(p, ep) ==
    /\ req[p].pc = "call"
    /\ req[p].ep = ep
    /\ \E o \in DataCallOutcomes :
         req' = [req EXCEPT ![p] =
                   AfterCall([req[p] EXCEPT !.up = o, !.calls = @ + 1], o)]
    /\ UNCHANGED <<env, store, issued, challenges>>

\* Lines 113-123
get_user_summary ==
    \/ \E p \in Handlers : Resolve(p, "summary", "na", "na")
    \/ \E p \in Handlers : Dispatch(p, "summary")

\* Lines 126-136
get_activities ==
    \/ \E p \in Handlers : Resolve(p, "activities", "na", "na")
    \/ \E p \in Handlers : Dispatch(p, "activities")

\* Line 146: getattr(Garmin.ActivityDownloadFormat, fmt)
FormatKnown(fmt) == fmt \in DownloadFormats

\* The base64 alphabet (RFC 4648), index 0..63 at position 1..64.
B64Alphabet ==
    <<"A", "B", "C", "D", "E", "F", "G", "H", "I", "J", "K", "L", "M",
      "N", "O", "P", "Q", "R", "S", "T", "U", "V", "W", "X", "Y", "Z",
      "a", "b", "c", "d", "e", "f", "g", "h", "i", "j", "k", "l", "m",
      "n", "o", "p", "q", "r", "s", "t", "u", "v", "w", "x", "y", "z",
      "0", "1", "2", "3", "4", "5", "6", "7", "8", "9", "+", "/">>

B64Char(sextet) == B64Alphabet[sextet + 1]

\* base64.b64encode on a byte string: three bytes give four characters, a
\* tail of one or two bytes is padded with "=".
RECURSIVE EncodeGroups(_)
EncodeGroups(b) ==
    IF Len(b) = 0 THEN <<>>
    ELSE IF Len(b) = 1
    THEN <<B64Char(b[1] \div 4), B64Char((b[1] % 4) * 16), "=", "=">>
    ELSE IF Len(b) = 2
    THEN <<B64Char(b[1] \div 4), B64Char((b[1] % 4) * 16 + b[2] \div 16),
           B64Char((b[2] % 16) * 4), "=">>
    ELSE <<B64Char(b[1] \div 4), B64Char((b[1] % 4) * 16 + b[2] \div 16),
           B64Char((b[2] % 16) * 4 + b[3] \div 64), B64Char(b[3] % 64)>>
         \o EncodeGroups(SubSeq(b, 4, Len(b)))

\* An encoder that emits whole groups only: the tail of one or two bytes
\* is lost.
Base64EncodeWholeGroups(raw) == EncodeGroups(SubSeq(raw, 1, 3 * (Len(raw) \div 3)))

\* Line 149: base64.b64encode(raw).decode("ascii")
Base64Encode(raw) == EncodeGroups(raw)

\* Line 147: the arguments handed to garmin.download_activity.
DownloadArgs(activity_id, fmt) == <<activity_id, fmt>>

\* Line 149: the envelope of a download.
DownloadEnvelope(r, raw) ==
    [Returned(r, "data", 0) EXCEPT !.raw = raw,
                                   !.out_activity_id = r.activity_id,
                                   !.out_format = r.fmt,
                                   !.data_base64 = Base64Encode(raw)]

\* Lines 145-151: the format lookup, then garmin.download_activity.
DownloadCall(p) ==
    /\ req[p].pc = "call"
    /\ req[p].ep = "download"
    /\ IF FormatKnown(req[p].fmt)
       THEN \E o \in DataCallOutcomes :
              LET r == [req[p] EXCEPT !.up = o, !.calls = @ + 1,
                          !.asked = DownloadArgs(req[p].activity_id, req[p].fmt)]
              IN IF o = "ok"
                 THEN \E raw \in ByteStrings :
                        req' = [req EXCEPT ![p] = DownloadEnvelope(r, raw)]
                 ELSE req' = [req EXCEPT ![p] = AfterCall(r, o)]
       ELSE req' = [req EXCEPT ![p] = Raised(req[p], RaiseFromErr(AttrErr))]
    /\ UNCHANGED <<env, store, issued, challenges>>

\* Lines 139-151
download_activity ==
    \/ \E p \in Handlers, fmt \in Formats, activity_id \in ActivityIds :
           Resolve(p, "download", fmt, activity_id)
    \/ \E p \in Handlers : DownloadCall(p)

\* Line 161, first half: garmin.get_full_name()
WhoamiFullName(p) ==
    /\ req[p].pc = "call"
    /\ req[p].ep = "whoami"
    /\ \E o \in DataCallOutcomes :
         LET r == [req[p] EXCEPT !.up = o, !.calls = @ + 1]
         IN req' = [req EXCEPT ![p] =
                      IF o = "ok" THEN [r EXCEPT !.pc = "call2"]
                      ELSE Raised(r, RaiseFromErr(o))]
    /\ UNCHANGED <<env, store, issued, challenges>>

\* Line 161, second half: garmin.get_unit_system()
WhoamiUnitSystem(p) ==
    /\ req[p].pc = "call2"
    /\ req[p].ep = "whoami"
    /\ \E o \in DataCallOutcomes :
         req' = [req EXCEPT ![p] =
                   AfterCall([req[p] EXCEPT !.up = o, !.calls = @ + 1], o)]
    /\ UNCHANGED <<env, store, issued, challenges>>

\* Lines 154-163
whoami ==
    \/ \E p \in Handlers : Resolve(p, "whoami", "na", "na")
    \/ \E p \in Handlers : WhoamiFullName(p)
    \/ \E p \in Handlers : WhoamiUnitSystem(p)

\* ------------------------------------------------------- specification
\* A fresh deployment: no token store on disk, nothing issued, no request.
\* ----------------------------------------------------- the environment
\* The operator removes the token store directory.  The program has no
\* code that does it; it only meets the result at its next load (line 47).
\* Requests already answered are marked as preceding the removal.
DeleteStore ==
    /\ \E tokenstore \in Paths :
         /\ store[tokenstore] # 0
         /\ store' = [store EXCEPT ![tokenstore] = 0]
    /\ req' = [p \in Handlers |->
                IF req[p].pc = "done" THEN [req[p] EXCEPT !.removed = TRUE]
                ELSE req[p]]
    /\ UNCHANGED <<env, issued, challenges>>

Init ==
    /\ env \in EnvValues
    /\ store = [path \in Paths |-> 0]
    /\ issued = 0
    /\ challenges = 0
    /\ req = [p \in {1} |-> NoRequest]

Next ==
    \/ healthz
    \/ login
    \/ resume_login
    \/ get_user_summary
    \/ get_activities
    \/ download_activity
    \/ whoami
    \/ DeleteStore

Spec == Init /\ [][Next]_vars

\* --------------------------------------- concurrent request handling
\* Two requests in flight: handlers run thread-per-request and share only
\* the token store.
InitConcurrent ==
    /\ env \in EnvValues
    /\ store = [path \in Paths |-> 0]
    /\ issued = 0
    /\ challenges = 0
    /\ req = [p \in {1, 2} |-> NoRequest]

\* The upstream answers every call (no rate limit, no transport failure),
\* credentials and codes are right and the disk takes every write: what is
\* left is the interleaving of the handlers.
Undisturbed ==
    \A p \in Handlers :
        /\ req[p].creds \in {"na", "good", "mfa"}
        /\ req[p].code \in {"na", "right"}
        /\ req[p].load \in Faults => req[p].seen = "partial"
        /\ req[p].up \notin Faults
        /\ req[p].dumped \in {"none", "ok"}

NextConcurrent ==
    \/ login /\ Undisturbed'
    \/ resume_login /\ Undisturbed'
    \/ get_user_summary /\ Undisturbed'

SpecConcurrent == InitConcurrent /\ [][NextConcurrent]_vars

TypeOK ==
    /\ env \in EnvValues
    /\ store \in [Paths -> 0..MaxTok]
    /\ issued \in 0..MaxTok
    /\ challenges \in 0..MaxChal
    /\ \A p \in Handlers :
         /\ req[p].ep \in {"none", "healthz"} \cup LoginEndpoints \cup ReadOnlyEndpoints
         /\ req[p].pc \in {"idle", "credlogin", "dump", "call", "call2", "done"}
         /\ req[p].status \in {0, 200, 401, 429, 500, 502}

\* ------------------------------------------------------------- claims
Done(p) == req[p].pc = "done"
Failed(p) == Done(p) /\ req[p].status # 200
Answer(p) == <<req[p].status, req[p].detail>>
IsNotLoggedIn(p) == Answer(p) = <<401, "Not logged in. Use /login first.">>

\* The five outcomes of the fault translator's table.
MappedOutcome(p) ==
    /\ req[p].escaped = ""
    /\ \/ Answer(p) \in {<<401, "Authentication error">>,
                         <<429, "Too many requests">>,
                         <<502, "Upstream connection error">>,
                         <<401, "Not logged in. Use /login first.">>}
       \/ /\ req[p].status = 500
          /\ \E e \in AllErrs \cup {AttrErr} : req[p].detail = Str(e)

\* The answer the table gives for an exception of class e.
TableAnswer(e) ==
    CASE e = AuthErr -> <<401, "Authentication error">>
      [] e = RateErr -> <<429, "Too many requests">>
      [] e = ConnErr -> <<502, "Upstream connection error">>
      [] OTHER -> <<500, Str(e)>>

\* C1: every request that ends in a failure, on every endpoint and for every
\* exception the upstream client raises (the token-store load included), ends
\* in one of the five mapped outcomes; no exception leaves a handler unmapped.
C1_EveryFailureMapped ==
    \A p \in Handlers : Failed(p) => MappedOutcome(p)

\* C2: a read-only request that finds no valid token store (no file, or
\* tokens the upstream does not accept) is answered 401 "Not logged in. Use
\* /login first.", attempts no credential login and invokes no upstream
\* operation.
C2_NoStoreIsNotLoggedIn ==
    \A p \in Handlers :
        (req[p].ep \in ReadOnlyEndpoints /\ Done(p)
            /\ req[p].seen \in {"missing", "invalid"})
        => (IsNotLoggedIn(p) /\ req[p].logins = 0 /\ req[p].calls = 0)

\* C3: a credential login the upstream answers with a second-factor
\* requirement is answered needs_mfa with the upstream's challenge state,
\* non-null; a resume carrying an issued challenge state and the correct
\* code, which the upstream answers, returns ok.
C3_MfaHandshake ==
    \A p \in Handlers :
        /\ (req[p].ep = "login" /\ Done(p) /\ req[p].up = "needs_mfa")
           => /\ req[p].status = 200
              /\ req[p].body = "needs_mfa"
              /\ req[p].client_state = req[p].token2
              /\ req[p].client_state # 0
        /\ (req[p].ep = "resume" /\ Done(p) /\ req[p].cs \in 1..challenges
               /\ req[p].code = "right" /\ req[p].up \notin Faults)
           => /\ req[p].status = 200
              /\ req[p].body = "ok"

C3_Witness ==
    \E p \in Handlers :
        /\ req[p].ep = "resume" /\ Done(p)
        /\ req[p].cs \in 1..challenges /\ req[p].code = "right"
        /\ req[p].status = 200 /\ req[p].body = "ok"

\* C4: a login with GARMINTOKENS set whose store is loaded and validated
\* returns ok with client_state null and attempts no credential login,
\* whatever credentials the body carries.
C4_ReuseSkipsCredentials ==
    \A p \in Handlers :
        (req[p].ep = "login" /\ Done(p) /\ Truthy(env) /\ req[p].load = "ok")
        => /\ req[p].status = 200
           /\ req[p].body = "ok"
           /\ req[p].client_state = 0
           /\ req[p].logins = 0

C4_Witness ==
    \E p \in Handlers :
        /\ req[p].ep = "login" /\ Done(p) /\ Truthy(env) /\ req[p].load = "ok"
        /\ req[p].creds = "bad"
        /\ req[p].status = 200

\* C5: a login or resume whose token-store write throws still returns 200
\* with status ok.
C5_DumpFailureSwallowed ==
    \A p \in Handlers :
        (req[p].ep \in LoginEndpoints /\ Done(p) /\ req[p].dumped \in AllErrs)
        => (req[p].status = 200 /\ req[p].body = "ok" /\ req[p].escaped = "")

C5_Witness ==
    \E p \in Handlers :
        /\ req[p].ep = "login" /\ Done(p) /\ req[p].dumped = RateErr
        /\ req[p].status = 200

\* C6: on every endpoint an exception raised by the dispatched upstream call
\* is answered by its class alone: authentication 401, rate limit 429,
\* connection 502, anything else 500 with the message.
C6_TranslatedByCategory ==
    \A p \in Handlers :
        (Done(p) /\ req[p].up \in AllErrs)
        => (Answer(p) = TableAnswer(req[p].up) /\ req[p].escaped = "")

C6_Witness ==
    \E p \in Handlers :
        /\ req[p].ep = "activities" /\ Done(p) /\ req[p].up = RateErr
        /\ Answer(p) = <<429, "Too many requests">>

\* C7 as claimed: every failed resume is reported as 401.
C7_EveryFailedResumeIs401 ==
    \A p \in Handlers :
        (req[p].ep = "resume" /\ Failed(p)) => req[p].status = 401

\* C7 amended: a failed resume is reported as 401 "Authentication error"
\* exactly when the upstream raised an authentication error, as it does for
\* an incorrect code; other failures are reported as 429, 502 or 500.
C7_FailedResumeByCategory ==
    \A p \in Handlers :
        (req[p].ep = "resume" /\ Failed(p))
        => /\ req[p].status = 401 <=> req[p].up = AuthErr
           /\ req[p].up = AuthErr => req[p].detail = "Authentication error"
           /\ req[p].up \in Faults => req[p].status \in {429, 502, 500}
           /\ (req[p].code = "wrong" /\ req[p].up \notin Faults) => req[p].status = 401

C7_Witness ==
    \E p \in Handlers :
        /\ req[p].ep = "resume" /\ Failed(p)
        /\ req[p].cs \in 1..challenges /\ req[p].code = "wrong"
        /\ req[p].status = 401

\* C8: a token-store load that fails, for whatever reason, never aborts the
\* request: login goes on to the credential login, a read-only endpoint
\* answers 401 "Not logged in. Use /login first.".
C8_LoadFailureDowngraded ==
    \A p \in Handlers :
        (Done(p) /\ req[p].load \in AllErrs)
        => /\ req[p].escaped = ""
           /\ req[p].ep = "login" => req[p].logins = 1
           /\ req[p].ep \in ReadOnlyEndpoints => IsNotLoggedIn(p)

\* C9: a login without credentials for which reuse gave no session attempts
\* no upstream credential login and ends unauthenticated.
C9_NoCredentialsNoLogin ==
    \A p \in Handlers :
        (req[p].ep = "login" /\ Done(p) /\ req[p].creds = "none"
            /\ req[p].load # "ok")
        => (req[p].logins = 0 /\ req[p].status = 401)

\* C10: login attempts reuse before the credential login whenever a store
\* location is available, the default path included: a login that goes to
\* the credential login while the resolved location holds a store has first
\* tried to load it.  (A login that failed has not written the store.)
C10_ReuseBeforeCredentials ==
    \A p \in Handlers :
        (req[p].ep = "login" /\ Failed(p) /\ req[p].logins > 0
            /\ store[ResolveTokenstore(env)] # 0)
        => req[p].load # "none"

\* C11: under any interleaving of logins and resumes that write the token
\* store and read-only requests that read it, a step that changes the store
\* leaves in it the tokens of the write that completes in that step, and a
\* read-only request ends in a successful answer or in a 401, never in an
\* exception that leaves the handler.
C11_LastWriterWinsReadersSurvive ==
    [][((store' # store) =>
            (\E p \in Handlers :
                /\ req[p].pc = "dump" /\ req'[p].pc = "done"
                /\ store' = [store EXCEPT ![ResolveTokenstore(env)] = req[p].garmin]))
       /\ (\A p \in Handlers :
                (req'[p].ep \in ReadOnlyEndpoints /\ req'[p].pc = "done")
                => (req'[p].escaped = "" /\ req'[p].status \in {200, 401}))]_vars

\* base64 decoding, as the caller of the API does it.
B64Value(c) == CHOOSE i \in 0..63 : B64Alphabet[i + 1] = c

RECURSIVE Base64Decode(_)
Base64Decode(t) ==
    IF Len(t) < 4 THEN <<>>
    ELSE LET v1 == B64Value(t[1])
             v2 == B64Value(t[2])
         IN IF t[3] = "=" THEN <<v1 * 4 + v2 \div 16>>
            ELSE IF t[4] = "="
            THEN <<v1 * 4 + v2 \div 16, (v2 % 16) * 16 + B64Value(t[3]) \div 4>>
            ELSE <<v1 * 4 + v2 \div 16, (v2 % 16) * 16 + B64Value(t[3]) \div 4,
                   (B64Value(t[3]) % 4) * 64 + B64Value(t[4])>>
                 \o Base64Decode(SubSeq(t, 5, Len(t)))

\* C12: a download with a resolved session, a format of the enumerated set
\* and an upstream that returns the file answers 200; data_base64 decodes to
\* exactly the bytes the upstream returned for the activity and format asked
\* for, which are the requested ones, and the envelope echoes both.
C12_DownloadRoundTrip ==
    \A p \in Handlers :
        (req[p].ep = "download" /\ Done(p) /\ req[p].load = "ok"
            /\ req[p].fmt \in DownloadFormats /\ req[p].up = "ok")
        => /\ req[p].status = 200
           /\ Base64Decode(req[p].data_base64) = req[p].raw
           /\ req[p].asked = <<req[p].activity_id, req[p].fmt>>
           /\ req[p].out_activity_id = req[p].activity_id
           /\ req[p].out_format = req[p].fmt

C12_Witness ==
    \E p \in Handlers :
        /\ req[p].ep = "download" /\ Done(p) /\ req[p].status = 200
        /\ req[p].fmt = "TCX" /\ req[p].activity_id = "1002"
        /\ req[p].raw = <<255, 0>>
        /\ Base64Decode(req[p].data_base64) = req[p].raw

\* C13: every step of a login whose credential login answers needs_mfa
\* leaves the token store as it was: the request ends at once with no
\* session and no write, and the reuse attempt before it writes nothing.
C13_ChallengeWritesNothing ==
    [][\A p \in Handlers :
          (([req'[p] EXCEPT !.removed = req[p].removed] # req[p]
              /\ req'[p].ep = "login"
              /\ (req'[p].up = "needs_mfa" \/ req'[p].pc = "credlogin"))
           => (store' = store /\ req'[p].garmin = 0 /\ req'[p].dumped = "none"
               /\ (req'[p].up = "needs_mfa" => req'[p].pc = "done")))]_vars

C13_Witness ==
    \E p \in Handlers :
        /\ req[p].ep = "login" /\ Done(p) /\ req[p].up = "needs_mfa"
        /\ req[p].body = "needs_mfa" /\ req[p].seen = "invalid"
        /\ store[ResolveTokenstore(env)] # 0

\* A step taken by a request handler (not by the environment).
RequestStep ==
    \E p \in Handlers : [req'[p] EXCEPT !.removed = req[p].removed] # req[p]

\* The write of lines 89-90 (104-105) completing in this step: the handler
\* is a login or resume whose upstream login succeeded, and the store
\* becomes the old one with the new tokens at the resolved location.
SuccessfulWrite(p) ==
    /\ req[p].pc = "dump" /\ req'[p].pc = "done"
    /\ req[p].ep \in LoginEndpoints
    /\ req[p].up = "ok" /\ req[p].garmin # 0
    /\ req'[p].dumped = "ok"
    /\ store' = [store EXCEPT ![ResolveTokenstore(env)] = req[p].garmin]

\* C14: a step of a request changes the token store only as the write that
\* follows a successful credential login or MFA resume; healthz, read-only
\* requests, reuse, needs_mfa and failed logins or resumes leave it as it
\* is, and no request step empties a location that held tokens.
C14_StoreWrittenOnlyAfterLogin ==
    [][RequestStep =>
          /\ (store' # store) => (\E p \in Handlers : SuccessfulWrite(p))
          /\ \A tokenstore \in Paths :
                store[tokenstore] # 0 => store'[tokenstore] # 0]_vars

C14_Witness ==
    \E p \in Handlers :
        /\ req[p].ep \in LoginEndpoints /\ Done(p) /\ req[p].dumped = "ok"
        /\ req[p].garmin = 2
        /\ store[ResolveTokenstore(env)] = 2

\* C15: a read-only request resolves its session from the token store as
\* it is when the request arrives, whatever the worker served before: the
\* handle is the content of the store or none, and with the store gone the
\* answer is 401 "Not logged in" before any upstream data call, also when
\* the same request had succeeded earlier.
C15_FreshSessionPerRequest ==
    [][\A p \in Handlers :
          (Free(p) /\ req'[p].ep \in ReadOnlyEndpoints
              /\ [req'[p] EXCEPT !.removed = req[p].removed] # req[p])
          => /\ req'[p].garmin \in {0, store[ResolveTokenstore(env)]}
             /\ req'[p].load = "ok" => req'[p].garmin = store[ResolveTokenstore(env)]
             /\ store[ResolveTokenstore(env)] = 0
                  => /\ req'[p].pc = "done" /\ req'[p].status = 401
                     /\ req'[p].detail = "Not logged in. Use /login first."
                     /\ req'[p].garmin = 0 /\ req'[p].calls = 0]_vars

C15_Witness ==
    \E p \in Handlers :
        /\ req[p].ep = "summary" /\ Done(p) /\ req[p].follows = "read_removed"
        /\ IsNotLoggedIn(p) /\ req[p].seen = "missing" /\ issued > 0

OperationsInvoked(r) ==
    CASE r.ep \in {"summary", "activities"} -> {1}
      [] r.ep = "download" -> IF r.fmt \in DownloadFormats THEN {1} ELSE {0}
      [] r.ep = "whoami" -> IF r.status = 200 THEN {2} ELSE {1, 2}

C17_ReadAfterLoginResolves ==
    \A p \in Handlers :
        (req[p].ep \in ReadOnlyEndpoints
            /\ req[p].follows \in {"login_saved", "login_unsaved"}
            /\ req[p].seen # "invalid")
        => /\ ~IsNotLoggedIn(p)
           /\ req[p].load \notin Faults => (req[p].load = "ok" /\ req[p].garmin # 0)

\* C17, amended: the same, for a login or resume whose session was reused
\* from the token store or whose tokens were written to it; after an ok
\* whose write failed the next request finds whatever was there before.
C17_ReadAfterSavedLoginResolves ==
    \A p \in Handlers :
        (req[p].ep \in ReadOnlyEndpoints
            /\ req[p].follows = "login_saved"
            /\ req[p].seen # "invalid")
        => /\ ~IsNotLoggedIn(p)
           /\ req[p].load \notin Faults => (req[p].load = "ok" /\ req[p].garmin # 0)

C17_Witness ==
    \E p \in Handlers :
        /\ req[p].ep = "activities" /\ Done(p) /\ req[p].follows = "login_saved"
        /\ req[p].status = 200 /\ req[p].garmin = store[ResolveTokenstore(env)]
        /\ env = EnvPath

\* C18: the upstream download is invoked only with a format of the
\* enumerated set, a download whose fmt is outside the set ends in an error
\* response, and a download that finds no valid token store (no file, or
\* tokens the upstream does not accept) is answered 401 "Not logged in. Use
\* /login first." whatever fmt is, no format having been looked at.
C18_DownloadFormatGuard ==
    \A p \in Handlers :
        req[p].ep = "download"
        => /\ req[p].calls > 0
                => (req[p].fmt \in DownloadFormats /\ req[p].asked[2] = req[p].fmt)
           /\ (Done(p) /\ req[p].fmt \notin DownloadFormats) => Failed(p)
           /\ (Done(p) /\ req[p].seen \in {"missing", "invalid"})
                => (IsNotLoggedIn(p) /\ req[p].calls = 0)

====
